---- MODULE Spec2Model ----
(***************************************************************************)
(* The HTTP layer of app/app.py over the shared scheduler service.         *)
(*                                                                         *)
(* app.py holds the request handlers and the module-level singleton        *)
(* scheduler_service.  The class SchedulerService itself                   *)
(* (app/service/scheduler_service.py) is imported, so its four operations  *)
(* get_events, refresh_events, add_event and is_connected are modelled     *)
(* from section 4.1 of the specification.                                  *)
(*                                                                         *)
(* An Event is modelled by its start day alone: identifier, title and      *)
(* metadata are opaque to every operation below.  An optional value        *)
(* (Python None) is a sequence of length 0 or 1.                           *)
(***************************************************************************)
EXTENDS Integers, Sequences, FiniteSets

\* Longest provider result set and longest cache.
MaxLen == 2
\* Event start days and date bounds range over 1..MaxDay.
MaxDay == 2
\* The clock runs over 0..MaxTime.
MaxTime == 1
\* Requests that may be in flight at once (concurrent specification).
MaxReq == 2

VARIABLES
    events,         \* SchedulerService: cached events, in provider order
    populated,      \* SchedulerService: a fetch has succeeded at least once
    connected,      \* SchedulerService: connectivity flag
    lastRefreshed,  \* SchedulerService: last-refreshed timestamp (optional)
    now,            \* wall clock
    resp,           \* the HTTP response most recently sent
    lastOutcome,    \* provider side: outcome of the most recent provider call
    lastResult,     \* provider side: result set of the most recent successful call
    nLocal,         \* how many trailing cache entries came from add_event
    inflight        \* concurrent specification: how many requests await each provider call

vars == <<events, populated, connected, lastRefreshed, now, resp,
          lastOutcome, lastResult, nLocal, inflight>>

cacheVars == <<events, populated, connected, lastRefreshed>>
providerVars == <<lastOutcome, lastResult>>

----------------------------------------------------------------------------
\* Value domains

Days == 1..MaxDay

None == <<>>
Some(x) == <<x>>
OptDays == {None} \cup {Some(d) : d \in Days}

Event == [start : Days]

SeqsUpTo(S, n) == UNION {[1..k -> S] : k \in 0..n}
EventSeqs == SeqsUpTo(Event, MaxLen)

\* fetch_all_events() either fails or returns a result set.
ProviderFailure == [ok |-> FALSE, events |-> <<>>]
ProviderSuccess(s) == [ok |-> TRUE, events |-> s]
ProviderOutcomes == {ProviderFailure} \cup {ProviderSuccess(s) : s \in EventSeqs}

\* The outcomes a read can meet: the provider is called only while the cache
\* has never been populated.
Reachable(isPopulated) == IF isPopulated THEN {ProviderFailure} ELSE ProviderOutcomes

Bodies == {"invalid_json", "not_object", "no_init_data", "empty_init_data", "init_data"}
Headers == {"absent", "empty", "present"}

----------------------------------------------------------------------------
\* SchedulerService (imported by app.py; modelled from the specification, 4.1)

\* The singleton created at import time and handed to every handler.
scheduler_service ==
    [events |-> events, populated |-> populated,
     connected |-> connected, lastRefreshed |-> lastRefreshed]

get_scheduler_service == scheduler_service

\* D1 <= start <= D2, an omitted bound leaving its side open.
InRange(ev, start_date, end_date) ==
    /\ (start_date = None \/ start_date[1] <= ev.start)
    /\ (end_date = None \/ ev.start <= end_date[1])

FilterEvents(evs, start_date, end_date) ==
    LET keep(ev) == InRange(ev, start_date, end_date)
    IN  SelectSeq(evs, keep)

\* The all-or-nothing swap: the new result set takes the place of the old.
ExtendSnapshot(old, new) == old \o new

ReplaceSnapshot(old, new) == new

\* A provider call has returned `out` at time t: on success the snapshot is
\* replaced and stamped, on failure only the connectivity flag changes.
StoreFetched(c, out, t) ==
    IF out.ok
    THEN [events |-> ReplaceSnapshot(c.events, out.events), populated |-> TRUE,
          connected |-> TRUE, lastRefreshed |-> Some(t)]
    ELSE [c EXCEPT !.connected = FALSE]

\* What a service call hands back to the handler: the value returned or the
\* exception raised, the service's state afterwards, and how many provider
\* calls it made.
ServiceResult(raised, value, c, fetches) ==
    [raised |-> raised, value |-> value, cache |-> c, fetches |-> fetches]

RefreshClearsOnFailure(c, out, t) ==
    LET c1 == IF out.ok THEN StoreFetched(c, out, t)
              ELSE [c EXCEPT !.events = <<>>, !.populated = FALSE, !.connected = FALSE]
    IN  ServiceResult(~out.ok, IF out.ok THEN c1.events ELSE <<>>, c1, 1)

refresh_events(c, out, t) ==
    LET c1 == StoreFetched(c, out, t)
    IN  ServiceResult(~out.ok, IF out.ok THEN c1.events ELSE <<>>, c1, 1)

\* The implicit initial fetch of get_events, from the provider's answer on:
\* store it, then filter; a failure is raised to the caller.
FetchThenRead(c, start_date, end_date, out, t) ==
    LET c1 == StoreFetched(c, out, t)
    IN  IF out.ok
        THEN ServiceResult(FALSE, FilterEvents(c1.events, start_date, end_date), c1, 1)
        ELSE ServiceResult(TRUE, <<>>, c1, 1)

get_events(c, start_date, end_date, out, t) ==
    IF c.populated
    THEN ServiceResult(FALSE, FilterEvents(c.events, start_date, end_date), c, 0)
    ELSE FetchThenRead(c, start_date, end_date, out, t)

add_event(c, new) == [c EXCEPT !.events = c.events \o new]

is_connected(c) == c.connected

----------------------------------------------------------------------------
\* Responses

Reply(op, status, detail) ==
    [op |-> op, status |-> status, detail |-> detail, events |-> <<>>,
     google_api |-> "", refresh |-> FALSE, start_date |-> None,
     end_date |-> None, input |-> "", fetches |-> 0]

\* An exception in flight.  HTTPException is a subclass of Exception, as are
\* the errors the provider client, request.json() and data.get() raise.
HTTPException(status_code, detail) ==
    [type |-> "HTTPException", status_code |-> status_code, detail |-> detail]
OtherException(type) == [type |-> type, status_code |-> 0, detail |-> type]

\* str(e): Starlette renders an HTTPException as "<status_code>: <detail>".
Str(e) ==
    IF e.type = "HTTPException"
    THEN <<IF e.status_code = 400 THEN "400" ELSE "500", ": ", e.detail>>
    ELSE <<e.detail>>

\* The outcome of a try body: a value returned or an exception raised.
Returned(v) == [raised |-> FALSE, value |-> v, exc |-> OtherException("")]
Raised(e) == [raised |-> TRUE, value |-> "", exc |-> e]

\* except Exception as e: raise HTTPException(status_code=500, detail=prefix + str(e))
ExceptException(op, prefix, body) ==
    IF body.raised
    THEN Reply(op, 500, <<prefix>> \o Str(body.exc))
    ELSE Reply(op, 200, <<body.value>>)

----------------------------------------------------------------------------
\* Handlers of app.py, one action per request

\* The service's state after a call, and the provider's side of that call.
Commit(r, out) ==
    /\ events' = r.cache.events
    /\ populated' = r.cache.populated
    /\ connected' = r.cache.connected
    /\ lastRefreshed' = r.cache.lastRefreshed
    /\ lastOutcome' = IF r.fetches = 0 THEN lastOutcome
                      ELSE IF out.ok THEN "ok" ELSE "fail"
    /\ lastResult' = IF r.fetches > 0 /\ out.ok THEN out.events ELSE lastResult
    /\ nLocal' = IF r.fetches > 0 /\ out.ok THEN 0 ELSE nLocal

\* GET /health
HealthAlwaysConnected(conn) == "connected"

HealthResponse(conn) == IF conn THEN "connected" ELSE "disconnected"

health_check ==
    /\ resp' = [Reply("health_check", 200, <<>>) EXCEPT
                  !.google_api = HealthResponse(is_connected(get_scheduler_service))]
    /\ UNCHANGED <<cacheVars, providerVars, nLocal, now, inflight>>

\* GET /schedule: the service call the handler makes
ScheduleCallAlwaysGet(c, refresh, start_date, end_date, out, t) ==
    get_events(c, start_date, end_date, out, t)

ScheduleCallAlwaysRefresh(c, refresh, start_date, end_date, out, t) ==
    refresh_events(c, out, t)

ScheduleCallDropsEndDate(c, refresh, start_date, end_date, out, t) ==
    IF refresh
    THEN refresh_events(c, out, t)
    ELSE get_events(c, start_date, None, out, t)

ScheduleCall(c, refresh, start_date, end_date, out, t) ==
    IF refresh
    THEN refresh_events(c, out, t)
    ELSE get_events(c, start_date, end_date, out, t)

\* GET /schedule: the response built from what the service call did
ScheduleResponseSwallowsError(refresh, start_date, end_date, r) ==
    [Reply("get_schedule", 200, <<>>) EXCEPT
        !.events = r.value, !.refresh = refresh, !.start_date = start_date,
        !.end_date = end_date, !.fetches = r.fetches]

ScheduleResponseServesCacheOnError(refresh, start_date, end_date, r) ==
    IF r.raised /\ refresh
    THEN [Reply("get_schedule", 500,
                <<"Failed to get schedule: ">> \o Str(OtherException("ProviderUnavailable")))
            EXCEPT !.refresh = refresh, !.start_date = start_date,
                   !.end_date = end_date, !.fetches = r.fetches]
    ELSE [Reply("get_schedule", 200, <<>>) EXCEPT
            !.events = IF r.raised THEN r.cache.events ELSE r.value,
            !.refresh = refresh, !.start_date = start_date,
            !.end_date = end_date, !.fetches = 0]

ScheduleResponse(refresh, start_date, end_date, r) ==
    IF r.raised
    THEN [Reply("get_schedule", 500,
                <<"Failed to get schedule: ">> \o Str(OtherException("ProviderUnavailable")))
            EXCEPT !.refresh = refresh, !.start_date = start_date,
                   !.end_date = end_date, !.fetches = r.fetches]
    ELSE [Reply("get_schedule", 200, <<>>) EXCEPT
            !.events = r.value, !.refresh = refresh, !.start_date = start_date,
            !.end_date = end_date, !.fetches = r.fetches]

get_schedule(refresh, start_date, end_date, out) ==
    LET r == ScheduleCall(get_scheduler_service, refresh, start_date, end_date, out, now)
    IN  /\ Commit(r, out)
        /\ resp' = ScheduleResponse(refresh, start_date, end_date, r)
        /\ UNCHANGED <<now, inflight>>

\* POST /schedule/add
add_schedule(new) ==
    LET c == add_event(get_scheduler_service, new)
    IN  /\ Len(events) + Len(new) <= MaxLen
        /\ events' = c.events
        /\ nLocal' = nLocal + Len(new)
        /\ resp' = Reply("add_schedule", 200, <<>>)
        /\ UNCHANGED <<populated, connected, lastRefreshed, providerVars, now, inflight>>

\* POST /auth/telegram
TelegramAuthBody(body) ==
    IF body = "invalid_json" THEN Raised(OtherException("JSONDecodeError"))
    ELSE IF body = "not_object" THEN Raised(OtherException("AttributeError"))
    ELSE IF body \in {"no_init_data", "empty_init_data"}
         THEN Raised(HTTPException(400, "init_data is required"))
    ELSE Returned("Telegram auth successful")

telegram_auth(body) ==
    /\ resp' = [ExceptException("telegram_auth", "Telegram auth failed: ",
                                TelegramAuthBody(body)) EXCEPT !.input = body]
    /\ UNCHANGED <<cacheVars, providerVars, nLocal, now, inflight>>

\* GET /auth/telegram/user
TelegramUserBody(header) ==
    IF header \in {"absent", "empty"}
    THEN Raised(HTTPException(400, "Telegram user ID is required"))
    ELSE Returned("authenticated")

get_telegram_user(header) ==
    /\ resp' = [ExceptException("get_telegram_user", "Failed to get Telegram user: ",
                                TelegramUserBody(header)) EXCEPT !.input = header]
    /\ UNCHANGED <<cacheVars, providerVars, nLocal, now, inflight>>

\* Time passes between requests.
Tick ==
    /\ now < MaxTime
    /\ now' = now + 1
    /\ UNCHANGED <<cacheVars, providerVars, nLocal, resp, inflight>>

----------------------------------------------------------------------------
\* One request at a time

Init ==
    /\ events = <<>>
    /\ populated = FALSE
    /\ connected = FALSE
    /\ lastRefreshed = None
    /\ now = 0
    /\ resp = Reply("none", 0, <<>>)
    /\ lastOutcome = "none"
    /\ lastResult = <<>>
    /\ nLocal = 0
    /\ inflight = [refresh_events |-> 0, get_events |-> 0]

Next ==
    \/ health_check
    \/ \E out \in ProviderOutcomes : get_schedule(TRUE, None, None, out)
    \/ \E start_date \in OptDays, end_date \in OptDays, out \in Reachable(populated) :
          get_schedule(FALSE, start_date, end_date, out)
    \/ \E new \in EventSeqs : add_schedule(new)
    \/ \E body \in Bodies : telegram_auth(body)
    \/ \E header \in Headers : get_telegram_user(header)
    \/ Tick

Spec == Init /\ [][Next]_vars

----------------------------------------------------------------------------
\* Several requests in flight on the one event loop.  A handler runs without
\* interruption up to its await of the provider and again from the provider's
\* answer to its response.  Requests awaiting the same call are alike, so
\* inflight counts them.  Reads that await the provider carry no bounds here.

Awaiting == inflight.refresh_events + inflight.get_events

BeginRefresh ==
    /\ Awaiting < MaxReq
    /\ inflight' = [inflight EXCEPT !.refresh_events = @ + 1]
    /\ UNCHANGED <<cacheVars, providerVars, nLocal, now, resp>>

BeginFetch ==
    /\ Awaiting < MaxReq
    /\ ~populated
    /\ inflight' = [inflight EXCEPT !.get_events = @ + 1]
    /\ UNCHANGED <<cacheVars, providerVars, nLocal, now, resp>>

ProviderReturn(call, out) ==
    /\ inflight[call] > 0
    /\ LET refresh == call = "refresh_events"
           res == IF refresh
                  THEN refresh_events(get_scheduler_service, out, now)
                  ELSE FetchThenRead(get_scheduler_service, None, None, out, now)
       IN  /\ Commit(res, out)
           /\ resp' = ScheduleResponse(refresh, None, None, res)
    /\ inflight' = [inflight EXCEPT ![call] = @ - 1]
    /\ UNCHANGED now

ReadCached(start_date, end_date) ==
    /\ populated
    /\ get_schedule(FALSE, start_date, end_date, ProviderFailure)

ConcNext ==
    \/ BeginRefresh
    \/ BeginFetch
    \/ \E call \in DOMAIN inflight, out \in ProviderOutcomes : ProviderReturn(call, out)
    \/ \E start_date \in OptDays, end_date \in OptDays : ReadCached(start_date, end_date)
    \/ \E new \in EventSeqs : add_schedule(new)

ConcSpec == Init /\ [][ConcNext]_vars

----------------------------------------------------------------------------
\* Properties

\* What the last response was
IsSchedule == resp.op = "get_schedule"
IsRefresh == IsSchedule /\ resp.refresh
IsRead == IsSchedule /\ ~resp.refresh

\* The entries of the cache that came from the provider.
ProviderPart(evs) == SubSeq(evs, 1, Len(evs) - nLocal)

\* r holds exactly the elements of c whose start lies within the bounds, in
\* the order c holds them: the k-th element of r is the k-th such element of c.
IsOrderedSelection(r, c, start_date, end_date) ==
    LET hit == {i \in DOMAIN c :
                   /\ \A d \in Days : start_date = Some(d) => d <= c[i].start
                   /\ \A d \in Days : end_date = Some(d) => c[i].start <= d}
        nth(k) == CHOOSE i \in hit : Cardinality({j \in hit : j <= i}) = k
    IN  /\ Len(r) = Cardinality(hit)
        /\ \A k \in DOMAIN r : r[k] = c[nth(k)]

\* C1: a refresh whose provider call fails leaves the cached event sequence
\* as it was, and the caller receives status 500 from GET /schedule.
FailedRefreshKeepsCache ==
    [][(IsRefresh' /\ lastOutcome' = "fail")
         => /\ events' = events
            /\ resp'.status = 500
            /\ resp'.detail[1] = "Failed to get schedule: "]_vars

FailedRefreshOnPopulatedCache ==
    /\ IsRefresh /\ resp.status = 500
    /\ populated /\ Len(events) = MaxLen

\* C2: a refresh whose provider call succeeds returns the provider's result
\* set, and an unbounded read issued directly after it returns exactly that
\* result set, in provider order.
RefreshReturnsProviderResult ==
    (IsRefresh /\ lastOutcome = "ok")
      => /\ resp.status = 200
         /\ resp.events = lastResult
         /\ \A out \in ProviderOutcomes :
              LET next == ScheduleResponse(FALSE, None, None,
                              ScheduleCall(get_scheduler_service, FALSE, None, None, out, now))
              IN  next.status = 200 /\ next.events = lastResult

RefreshedWithOrderedResult ==
    /\ IsRefresh /\ resp.status = 200
    /\ Len(resp.events) = MaxLen
    /\ resp.events[1].start > resp.events[MaxLen].start

\* C3: in every reachable state the cache content equals the result of the
\* most recent successful provider fetch or refresh (empty if none).
CacheIsLastProviderResult == events = lastResult

\* C4: a read returns exactly the cached events whose start lies within the
\* given bounds, in cache order; an omitted bound leaves its side open.
ReadIsExactFilter ==
    (IsRead /\ resp.status = 200)
      => IsOrderedSelection(resp.events, events, resp.start_date, resp.end_date)

BoundedReadDropsAnEvent ==
    /\ IsRead /\ resp.status = 200 /\ populated /\ resp.fetches = 0
    /\ resp.start_date # None /\ resp.end_date # None
    /\ resp.events # <<>> /\ Len(resp.events) < Len(events)

\* C5: is_connected() is true exactly when the most recent provider call
\* succeeded, GET /health reports it, a read after a failed refresh of a
\* populated cache still returns the cached events, and GET /health neither
\* calls the provider nor changes the cache.
HealthReflectsLastOutcome ==
    /\ [](/\ is_connected(get_scheduler_service) <=> lastOutcome = "ok"
          /\ resp.op = "health_check"
               => /\ resp.status = 200
                  /\ resp.google_api = "connected" <=> lastOutcome = "ok"
                  /\ resp.google_api = "disconnected" <=> lastOutcome # "ok"
          /\ (populated /\ lastOutcome = "fail")
               => \A out \in ProviderOutcomes :
                    LET read == ScheduleCall(get_scheduler_service, FALSE, None, None, out, now)
                    IN  ~read.raised /\ read.value = events /\ read.fetches = 0)
    /\ [][resp'.op = "health_check"
            => UNCHANGED <<cacheVars, providerVars>> /\ resp'.fetches = 0]_vars

DisconnectedWithStaleEvents ==
    /\ resp.op = "health_check" /\ resp.google_api = "disconnected"
    /\ populated /\ events # <<>> /\ lastOutcome = "fail"

\* C6: a read on a never-populated cache makes one provider call; if that
\* call fails the caller gets status 500 and the cache stays as it was and
\* never-populated, so the next read calls the provider again.
UnpopulatedReadFetches ==
    [][(~populated /\ IsRead')
         => /\ resp'.fetches = 1
            /\ lastOutcome' = "fail"
                 => resp'.status = 500 /\ events' = events /\ ~populated'
            /\ lastOutcome' = "ok" => resp'.status = 200 /\ populated']_vars

FailedInitialFetch ==
    /\ IsRead /\ resp.status = 500 /\ resp.fetches = 1
    /\ ~populated /\ events = <<>>

\* C7: with several refreshes and reads in flight the cache never mixes two
\* result sets: its provider part is always the complete result set of the
\* latest successful provider call, and an unbounded read or a refresh
\* returns the whole cache.
NoMixedSnapshot ==
    /\ ProviderPart(events) = lastResult
    /\ (IsSchedule /\ resp.status = 200 /\ resp.start_date = None /\ resp.end_date = None)
         => resp.events = events

RefreshDoneWhileAnotherInFlight ==
    /\ IsRefresh /\ resp.status = 200 /\ events # <<>>
    /\ inflight.refresh_events > 0

\* C8 as stated: a read never changes the cached event sequence, the
\* last-refreshed timestamp or the connectivity flag, whatever the cache state.
ReadIsPure ==
    [][IsRead' => UNCHANGED <<events, lastRefreshed, connected>>]_vars

\* C8: a read of a populated cache, and a read whose implicit initial fetch
\* fails, leaves the cached event sequence, the last-refreshed timestamp and
\* the connectivity flag as they were.
ReadOfPopulatedCacheIsPure ==
    [][(IsRead' /\ (populated \/ resp'.status = 500))
         => UNCHANGED <<events, populated, lastRefreshed, connected>>]_vars

ReadLongAfterRefresh ==
    /\ IsRead /\ resp.status = 200 /\ resp.fetches = 0
    /\ populated /\ events # <<>>
    /\ lastRefreshed # None /\ lastRefreshed[1] < now

\* C9: a failed fetch or refresh leaves the cache Uninitialized or Populated
\* as it was, a successful one leaves it Populated with the result, and a
\* refresh and a read are enabled in every reachable state.
NoFailedState ==
    /\ [](/\ ENABLED (\E out \in ProviderOutcomes : get_schedule(TRUE, None, None, out))
          /\ ENABLED (\E out \in Reachable(populated) : get_schedule(FALSE, None, None, out)))
    /\ [][(IsSchedule' /\ resp'.fetches = 1)
            => IF lastOutcome' = "fail"
               THEN populated' = populated /\ events' = events
               ELSE populated' /\ events' = lastResult']_vars

FailedRefreshStaysUninitialized ==
    /\ IsRefresh /\ resp.status = 500
    /\ ~populated /\ lastRefreshed = None

\* C10: a stub-auth request that lacks its required input is answered with
\* status 400 and the message naming the missing input.
MissingAuthInputIs400 ==
    /\ (resp.op = "telegram_auth" /\ resp.input \in {"no_init_data", "empty_init_data"})
         => resp.status = 400 /\ resp.detail = <<"init_data is required">>
    /\ (resp.op = "get_telegram_user" /\ resp.input \in {"absent", "empty"})
         => resp.status = 400 /\ resp.detail = <<"Telegram user ID is required">>

====
